---- MODULE Spec2Model ----
(***************************************************************************)
(* State-machine model of web_quiz.py, a Streamlit quiz application.       *)
(*                                                                         *)
(* Streamlit executes the whole script top to bottom once per user         *)
(* interaction (a "script run"); st.rerun() aborts the current run and     *)
(* asks the script runner for a fresh one, st.stop() ends it.  Every       *)
(* action below is ONE script run: the run that serves one browser event   *)
(* (or none: Rerun).  A run that ends in st.rerun() leaves the rerun       *)
(* pending (rerun_due) and the page of the last completed run on display   *)
(* (stale); the next run is the bare rerun or serves a browser event sent  *)
(* from that page.  An event is sent only by a widget that is on display   *)
(* and enabled there, and it is handled only if the run, executed on the   *)
(* session state as it is now, reaches the widget; otherwise the run is    *)
(* the bare rerun.                                                         *)
(*                                                                         *)
(* Option labels are modelled by their alphabet position: 1 = "A",         *)
(* 2 = "B", 3 = "C", 4 = "D"; a label string is a sequence of them.        *)
(* Question types: "single" = 单选题, "multi" = 多选题, "judge" = 判断题.   *)
(* The fields explanation / knowledge / source of a question and the       *)
(* timestamp of a history record are copied or display-only data and are   *)
(* left out.                                                               *)
(***************************************************************************)
EXTENDS Integers, Sequences, FiniteSets, TLC

VARIABLES
    started,          \* 'mistakes' / 'history' / 'app_state' in st.session_state
    all_questions,    \* load_questions() (st.cache_data): the cached bank
    mistakes_file,    \* mistakes.json on disk
    history_file,     \* history.json on disk
    mistakes,         \* st.session_state.mistakes : content -> remaining
    history,          \* st.session_state.history
    app_state,        \* 'idle' | 'playing' | 'finished'
    play_mode,        \* '' | 'random' | 'mistake'
    selected_q,       \* st.session_state.selected_q
    current_idx,      \* st.session_state.current_idx (0-based)
    score,            \* st.session_state.score
    answered,         \* st.session_state.answered
    is_correct,       \* st.session_state.is_correct
    round_id,         \* st.session_state.round_id
    session_records,  \* st.session_state.session_records
    page,             \* sidebar radio: "home" | "random" | "mistake"
    selection,        \* ticked checkboxes / chosen radio option (option indices)
    notice,           \* st.warning shown by the last script run
    rerun_due,        \* st.rerun() requested by the last run, rerun not yet done
    stale,            \* while rerun_due: the page still on display
    hist_round,       \* history variable: round_id of the attempt behind history[i]
    abandoned,        \* history variable: rounds left while playing (reset / sync)
    streak            \* history variable: per content answered wrong at least once,
                      \* mistake-review answers graded correct since the last wrong one

vars == <<started, all_questions, mistakes_file, history_file,
          mistakes, history, app_state, play_mode, selected_q, current_idx,
          score, answered, is_correct, round_id, session_records, page,
          selection, notice, rerun_due, stale, hist_round, abandoned, streak>>

----------------------------------------------------------------------------
(* Bounds of the model *)

\* The start buttons are disabled in the model once round_id has reached the
\* round bound, and the script runs that would append to history once it holds
\* as many records as the history bound.

\* Spec: two-question bank
MaxRounds == 2
MaxHistory == 2
\* SpecLedger: one-question banks, more attempts
LedgerMaxRounds == 3
LedgerMaxHistory == 2
\* SpecGrade: bank with a three-option multi-choice question
GradeMaxRounds == 1
GradeMaxHistory == 2
\* SpecRecord: three-question bank, so that attempts of three questions finish
RecordMaxRounds == 1
RecordMaxHistory == 2
\* SpecFair: the user who answers and moves on, without force reset or sync
FairMaxRounds == 1
FairMaxHistory == 2

----------------------------------------------------------------------------
(* Question rows (the dicts built by load_questions) *)

\* the option string f"{k}. {text}": its leading label (A = 1, B = 2, ...) and
\* the text of the option column
Opt(k, text) == [label |-> k, text |-> text]

\* the options given to a true/false row without option columns
DefaultJudgeOptions == <<Opt(1, "right"), Opt(2, "wrong")>>

\* Q1's option columns read like the default true/false options; Q5's do not.
Row(i) ==
    CASE i = 1 -> [id |-> 1, content |-> "Q1", type |-> "single",
                   options |-> <<Opt(1, "right"), Opt(2, "wrong")>>,
                   answer |-> <<1>>]
      [] i = 2 -> [id |-> 2, content |-> "Q2", type |-> "multi",
                   options |-> <<Opt(1, "gold"), Opt(2, "copper")>>,
                   answer |-> <<2, 1>>]
      [] i = 3 -> [id |-> 3, content |-> "Q3", type |-> "multi",
                   options |-> <<Opt(1, "gold"), Opt(2, "copper"), Opt(3, "silver")>>,
                   answer |-> <<3, 1>>]
      [] i = 5 -> [id |-> 5, content |-> "Q5", type |-> "single",
                   options |-> <<Opt(1, "gold"), Opt(2, "copper")>>,
                   answer |-> <<1>>]
      [] OTHER -> [id |-> 4, content |-> "Q4", type |-> "judge",
                   options |-> DefaultJudgeOptions, answer |-> <<2>>]

\* The spreadsheet contents load_questions() may find on disk, per specification.
Banks == { <<Row(1), Row(2)>> }
LedgerBanks == { <<Row(1)>>, <<Row(2)>>, <<>> }
GradeBanks == { <<Row(3), Row(4)>>, <<Row(4), Row(5)>> }
RecordBanks == { <<Row(1), Row(2), Row(4)>> }

----------------------------------------------------------------------------
(* Generic helpers *)

Range(s) == { s[i] : i \in DOMAIN s }

EmptyDict == [c \in {} |-> 0]

\* d[k] = v  (Python dict item assignment)
DictSet(d, k, v) == [c \in (DOMAIN d) \cup {k} |-> IF c = k THEN v ELSE d[c]]

\* del d[k]
DictDel(d, k) == [c \in (DOMAIN d) \ {k} |-> d[c]]

----------------------------------------------------------------------------
(* Persistence: a JSON file is absent, or holds a list, or holds an object *)

AbsentFile == [shape |-> "absent", list |-> <<>>, dict |-> EmptyDict]
ListFile(l) == [shape |-> "list", list |-> l, dict |-> EmptyDict]
DictFile(d) == [shape |-> "dict", list |-> <<>>, dict |-> d]

\* load_json(filepath, default_val): the parsed document, default_val if absent
load_json(file, default_val) ==
    IF file.shape = "absent" THEN default_val ELSE file

\* save_json(data, filepath) for a dict / for a list: the file afterwards
save_json_dict(data) == DictFile(data)
save_json_list(data) == ListFile(data)

\* mutation: migrated entries need one correct answer only
MutMigrateLegacyOne(raw_list) == [c \in Range(raw_list) |-> 1]

\* {q: 2 for q in raw_mistakes}
MigrateLegacy(raw_list) == [c \in Range(raw_list) |-> 2]

\* st.session_state.mistakes after the initialisation block
InitialMistakes(file) ==
    LET raw_mistakes == load_json(file, DictFile(EmptyDict))
    IN  IF raw_mistakes.shape = "list"
        THEN MigrateLegacy(raw_mistakes.list)
        ELSE raw_mistakes.dict

\* mistakes.json after the initialisation block (rewritten only on migration)
InitialMistakesFile(file) ==
    LET raw_mistakes == load_json(file, DictFile(EmptyDict))
    IN  IF raw_mistakes.shape = "list"
        THEN save_json_dict(MigrateLegacy(raw_mistakes.list))
        ELSE file

\* st.session_state.history after the initialisation block
InitialHistory(file) == load_json(file, ListFile(<<>>)).list

----------------------------------------------------------------------------
(* Grading *)

\* list.insert keeping s ascending
InsertSorted(x, s) ==
    LET k == Cardinality({ i \in DOMAIN s : s[i] <= x })
    IN  SubSeq(s, 1, k) \o <<x>> \o SubSeq(s, k + 1, Len(s))

RECURSIVE sorted(_)
\* Python sorted(): the elements of s in ascending order
sorted(s) == IF s = <<>> THEN <<>> ELSE InsertSorted(Head(s), sorted(Tail(s)))

is_multi(q) == q.type = "multi"

\* the checkbox loop: labels of the ticked options, in option order
user_ans_list(q, sel) ==
    LET ticked == SelectSeq([i \in 1..Len(q.options) |-> i], LAMBDA i : i \in sel)
    IN  [j \in 1..Len(ticked) |-> q.options[ticked[j]].label]

\* canonical answer string of a non-empty selection
user_ans_str(q, sel) ==
    IF is_multi(q)
    THEN sorted(user_ans_list(q, sel))
    ELSE <<q.options[CHOOSE i \in sel : TRUE].label>>

\* mutation: the stored answer compared as written, not sorted
MutCorrectAnsUnsorted(q) == q.answer

\* "".join(sorted(list(q['answer'])))
correct_ans_str(q) == sorted(q.answer)

\* user_ans_str == correct_ans_str
Graded(q, sel) == user_ans_str(q, sel) = correct_ans_str(q)

----------------------------------------------------------------------------
(* Mistake ledger policy *)

\* mutation: a wrong answer leaves an existing entry as it is
MutLedgerWrongKeep(m, content) ==
    IF content \in DOMAIN m THEN m ELSE DictSet(m, content, 2)

\* the ledger after a wrong answer to content
LedgerWrong(m, content) == DictSet(m, content, 2)

\* mutation: an entry whose counter reaches 0 is kept
MutLedgerDecrementKeepZero(m, content) == DictSet(m, content, m[content] - 1)

\* mutation: a correct answer takes two off the counter
MutLedgerDecrementTwo(m, content) ==
    IF m[content] - 2 <= 0
    THEN DictDel(m, content)
    ELSE DictSet(m, content, m[content] - 2)

\* mutation: the entry is removed while one correct answer is still owed
MutLedgerDecrementEarly(m, content) ==
    IF m[content] - 1 <= 1
    THEN DictDel(m, content)
    ELSE DictSet(m, content, m[content] - 1)

\* the ledger after a correct answer to content that is a ledger key,
\* in mistake-review mode
LedgerDecrement(m, content) ==
    LET remain_times == m[content] - 1
    IN  IF remain_times <= 0
        THEN DictDel(m, content)
        ELSE DictSet(m, content, remain_times)

\* whether the submit handler touches (and saves) the ledger
\* mutation: only the wrong branch saves the ledger
MutLedgerTouchedWrongOnly(m, mode, content, correct) == ~correct

LedgerTouched(m, mode, content, correct) ==
    IF correct THEN mode = "mistake" /\ content \in DOMAIN m ELSE TRUE

\* mutation: the mode is not looked at
MutLedgerAfterAnyMode(m, mode, content, correct) ==
    IF correct
    THEN IF content \in DOMAIN m THEN LedgerDecrement(m, content) ELSE m
    ELSE LedgerWrong(m, content)

\* the ledger after a graded submit
LedgerAfter(m, mode, content, correct) ==
    IF correct
    THEN IF mode = "mistake" /\ content \in DOMAIN m
         THEN LedgerDecrement(m, content)
         ELSE m
    ELSE LedgerWrong(m, content)

----------------------------------------------------------------------------
(* Sampling *)

\* [q for q in all_questions if q['content'] in mistakes]
mistake_pool(aq, m) == SelectSeq(aq, LAMBDA q : q.content \in DOMAIN m)

\* mutation: sampling with replacement
MutSampleWithReplacement(pool, k) ==
    { [i \in 1..k |-> pool[f[i]]] : f \in [1..k -> 1..Len(pool)] }

\* random.sample(pool, k): every arrangement of k distinct positions of pool
random_sample(pool, k) ==
    { [i \in 1..k |-> pool[f[i]]] :
        f \in { g \in [1..k -> 1..Len(pool)] :
                   \A a, b \in 1..k : a # b => g[a] # g[b] } }

----------------------------------------------------------------------------
(* History records *)

\* mutation: the percentage is cut off after the first decimal
MutAccuracyTruncated(sc, total_q) == (sc * 1000) \div total_q

\* round(score / total_q * 100, 1), in tenths of a percent.  Python rounds the
\* float half-to-even; for total_q < 80 the float product is close enough to
\* the exact quotient for this integer computation to give the same result.
Accuracy(sc, total_q) ==
    LET num == sc * 1000
        quo == num \div total_q
        rem == num % total_q
    IN  IF 2 * rem < total_q THEN quo
        ELSE IF 2 * rem > total_q THEN quo + 1
        ELSE IF quo % 2 = 0 THEN quo ELSE quo + 1

\* the record dict built by the finished branch
FinishRecord ==
    [mode     |-> play_mode,
     count    |-> Len(selected_q),
     score    |-> score,
     accuracy |-> Accuracy(score, Len(selected_q)),
     details  |-> session_records]

\* mutation: the trace entry carries the 0-based position
MutTraceEntryZeroBased(q, sel, correct) ==
    [idx         |-> current_idx,
     content     |-> q.content,
     type        |-> q.type,
     options     |-> q.options,
     user_ans    |-> user_ans_str(q, sel),
     correct_ans |-> correct_ans_str(q),
     is_correct  |-> correct]

\* the dict appended to session_records by the submit handler
TraceEntry(q, sel, correct) ==
    [idx         |-> current_idx + 1,
     content     |-> q.content,
     type        |-> q.type,
     options     |-> q.options,
     user_ans    |-> user_ans_str(q, sel),
     correct_ans |-> correct_ans_str(q),
     is_correct  |-> correct]

----------------------------------------------------------------------------
(* One script run without a button press, given the session state it starts  *)
(* from: app_state as_, page pg, bank aq, ledger m / file mf, history h /    *)
(* file hf (hr: the rounds behind h).  It decides mistakes, mistakes_file,   *)
(* history, history_file, hist_round and notice of the next state.           *)

\* history.append(record); save_json(history, HISTORY_FILE)
ArchiveAttempt(h, hr) ==
    /\ history' = Append(h, FinishRecord)
    /\ history_file' = save_json_list(Append(h, FinishRecord))
    /\ hist_round' = Append(hr, round_id)

KeepHistory(h, hf, hr) ==
    /\ history' = h
    /\ history_file' = hf
    /\ hist_round' = hr

\* the review pool is empty although the ledger is not
StaleLedger(aq, m) == DOMAIN m # {} /\ mistake_pool(aq, m) = <<>>

\* mutation: the stale ledger is cleared in memory but not saved
MutScriptRunClearUnsaved(as_, pg, aq, m, mf, h, hf, hr) ==
    IF pg = "home" /\ as_ # "playing"
    THEN /\ mistakes' = m /\ mistakes_file' = mf
         /\ KeepHistory(h, hf, hr)
         /\ notice' = ""
    ELSE IF as_ = "idle"
    THEN IF aq # <<>> /\ pg = "mistake" /\ StaleLedger(aq, m)
         THEN /\ mistakes' = EmptyDict
              /\ mistakes_file' = mf
              /\ KeepHistory(h, hf, hr)
              /\ notice' = "stale_cleared"
         ELSE /\ mistakes' = m /\ mistakes_file' = mf
              /\ KeepHistory(h, hf, hr)
              /\ notice' = ""
    ELSE IF as_ = "playing"
    THEN /\ mistakes' = m /\ mistakes_file' = mf
         /\ KeepHistory(h, hf, hr)
         /\ notice' = ""
    ELSE /\ mistakes' = m /\ mistakes_file' = mf
         /\ ArchiveAttempt(h, hr)
         /\ notice' = ""

ScriptRun(as_, pg, aq, m, mf, h, hf, hr) ==
    IF pg = "home" /\ as_ # "playing"
    THEN \* home page: display only
         /\ mistakes' = m /\ mistakes_file' = mf
         /\ KeepHistory(h, hf, hr)
         /\ notice' = ""
    ELSE IF as_ = "idle"
    THEN IF aq # <<>> /\ pg = "mistake" /\ StaleLedger(aq, m)
         THEN \* stale ledger: cleared wholesale and saved
              /\ mistakes' = EmptyDict
              /\ mistakes_file' = save_json_dict(EmptyDict)
              /\ KeepHistory(h, hf, hr)
              /\ notice' = "stale_cleared"
         ELSE /\ mistakes' = m /\ mistakes_file' = mf
              /\ KeepHistory(h, hf, hr)
              /\ notice' = ""
    ELSE IF as_ = "playing"
    THEN /\ mistakes' = m /\ mistakes_file' = mf
         /\ KeepHistory(h, hf, hr)
         /\ notice' = ""
    ELSE \* finished branch
         /\ mistakes' = m /\ mistakes_file' = mf
         /\ ArchiveAttempt(h, hr)
         /\ notice' = ""

----------------------------------------------------------------------------
(* What the browser displays.  A completed run displays the page of the      *)
(* session state; a run cut short by st.rerun() has rendered the sidebar     *)
(* anew and leaves the main area of the last completed run on display.       *)

NoStale == [view |-> "", menu |-> FALSE]

\* the main-area widgets a completed run renders: "random" / "mistake" the
\* start button of the setup page, "open" the enabled answer widgets and the
\* submit button, "next" / "last" the disabled answer widgets and the
\* next-question / hand-in button, "finished" the return-home button,
\* "plain" none of them
ViewOf(as_, pg, aq, m, sq, idx, ans) ==
    IF pg = "home" /\ as_ # "playing" THEN "plain"
    ELSE IF as_ = "idle"
    THEN IF aq = <<>> THEN "plain"
         ELSE IF pg = "random" THEN "random"
         ELSE IF DOMAIN m = {} \/ mistake_pool(aq, m) = <<>> THEN "plain"
         ELSE "mistake"
    ELSE IF as_ = "playing"
    THEN IF ~ans THEN "open"
         ELSE IF idx < Len(sq) - 1 THEN "next" ELSE "last"
    ELSE "finished"

\* the main area on display
View ==
    IF rerun_due THEN stale.view
    ELSE ViewOf(app_state, page, all_questions, mistakes, selected_q,
                current_idx, answered)

\* the sidebar radio on display is enabled (menu_disabled of the run that
\* rendered it, line 142)
MenuEnabled == IF rerun_due THEN stale.menu ELSE app_state # "playing"

\* the run ends in st.rerun(): the sidebar was rendered from the state the
\* run started in, the main area stays as it was
RerunRequested ==
    /\ rerun_due' = TRUE
    /\ stale' = [view |-> View, menu |-> (app_state # "playing")]

\* the run reaches the end of the script (or st.stop())
RunCompleted ==
    /\ rerun_due' = FALSE
    /\ stale' = NoStale

----------------------------------------------------------------------------
(* Initial state: the process is up, no script run has happened yet *)

\* mistakes.json as earlier sessions may have left it: no file, the legacy
\* list shape, a ledger with partial progress
InitialMistakeFiles ==
    { AbsentFile,
      ListFile(<<"Q1", "Q2">>),
      DictFile([c \in {"Q1"} |-> 1]) }

InitWith(bank, files, history_files) ==
    /\ started = FALSE
    /\ all_questions = bank
    /\ mistakes_file \in files
    /\ history_file \in history_files
    /\ rerun_due = FALSE
    /\ stale = NoStale
    /\ mistakes = EmptyDict
    /\ history = <<>>
    /\ app_state = "idle"
    /\ play_mode = ""
    /\ selected_q = <<>>
    /\ current_idx = 0
    /\ score = 0
    /\ answered = FALSE
    /\ is_correct = FALSE
    /\ round_id = 0
    /\ session_records = <<>>
    /\ page = "home"
    /\ selection = {}
    /\ notice = ""
    /\ hist_round = <<>>
    /\ abandoned = {}
    /\ streak = EmptyDict

Init == InitWith(<<Row(1), Row(2)>>, InitialMistakeFiles, {AbsentFile})

InitLedger == InitWith(<<Row(1)>>, {AbsentFile, ListFile(<<"Q2">>)}, {AbsentFile})

InitGrade == InitWith(<<Row(3), Row(4)>>, {AbsentFile, DictFile([c \in {"Q3"} |-> 2])}, {AbsentFile})

InitFair == InitWith(<<Row(1), Row(2)>>, {AbsentFile, DictFile([c \in {"Q2"} |-> 2])}, {AbsentFile})

\* history.json as an earlier session left it: one attempt of one question
PriorRecord ==
    [mode     |-> "random",
     count    |-> 1,
     score    |-> 0,
     accuracy |-> 0,
     details  |-> <<[idx         |-> 1,
                     content     |-> "Q4",
                     type        |-> "judge",
                     options     |-> DefaultJudgeOptions,
                     user_ans    |-> <<1>>,
                     correct_ans |-> <<2>>,
                     is_correct  |-> FALSE]>>]

InitRecord ==
    InitWith(<<Row(1), Row(2), Row(4)>>,
             {AbsentFile, DictFile([c \in {"Q4"} |-> 2])},
             {AbsentFile, ListFile(<<PriorRecord>>)})

----------------------------------------------------------------------------
(* Actions *)

\* first script run of the session: the three initialisation blocks, home page
Startup ==
    /\ ~started
    /\ started' = TRUE
    /\ app_state' = "idle" /\ play_mode' = "" /\ selected_q' = <<>>
    /\ current_idx' = 0 /\ score' = 0 /\ answered' = FALSE
    /\ is_correct' = FALSE /\ round_id' = 0 /\ session_records' = <<>>
    /\ page' = "home"
    /\ ScriptRun("idle", "home", all_questions,
                 InitialMistakes(mistakes_file), InitialMistakesFile(mistakes_file),
                 InitialHistory(history_file), history_file,
                 [i \in 1..Len(InitialHistory(history_file)) |-> 0])
    /\ RunCompleted
    /\ UNCHANGED <<all_questions, selection, abandoned, streak>>

CurrentQuestion == selected_q[current_idx + 1]

\* st.radio has no key: two radios with the same option strings are one widget
SameRadio(q, next_q) ==
    /\ ~is_multi(q) /\ ~is_multi(next_q)
    /\ q.options = next_q.options

\* the next-question handler has run and the page of the question just left
\* is still on display
PendingNext ==
    /\ rerun_due /\ stale.view = "next"
    /\ app_state = "playing" /\ ~answered /\ current_idx > 0

\* the widget state after the first run that renders the question following
\* the one on display: the checkboxes are keyed by round and position and
\* start unticked; a radio that is the same widget as the one of the question
\* just left keeps the option chosen there
SelectionAfterNext ==
    IF SameRadio(selected_q[current_idx], CurrentQuestion)
    THEN selection
    ELSE {}

\* the state of the answer widgets after a completed run that serves no
\* answer-widget event: kept by the widgets the run renders again, dropped
\* with the widgets it does not render
SelectionRendered ==
    IF app_state # "playing" THEN {}
    ELSE IF PendingNext THEN SelectionAfterNext
    ELSE selection

\* the sidebar radio; the run renders the page p of the session state
SelectPage(p, max_history) ==
    /\ started
    /\ MenuEnabled
    /\ p # page
    /\ (app_state = "finished" /\ p # "home") => Len(history) < max_history
    /\ page' = p
    /\ selection' = SelectionRendered
    /\ RunCompleted
    /\ ScriptRun(app_state, p, all_questions, mistakes, mistakes_file,
                 history, history_file, hist_round)
    /\ UNCHANGED <<started, all_questions, app_state, play_mode, selected_q,
                   current_idx, score, answered, is_correct, round_id,
                   session_records, abandoned, streak>>

\* a script run that serves no event, or an event of a widget the run does
\* not reach (the rerun a handler asked for, or Streamlit's own rerun): the
\* page branch of the session state runs
Rerun(max_history) ==
    /\ started
    /\ (app_state = "finished" /\ page # "home") => Len(history) < max_history
    /\ selection' = SelectionRendered
    /\ RunCompleted
    /\ ScriptRun(app_state, page, all_questions, mistakes, mistakes_file,
                 history, history_file, hist_round)
    /\ UNCHANGED <<started, all_questions, app_state, play_mode, selected_q,
                   current_idx, score, answered, is_correct, round_id,
                   session_records, page, abandoned, streak>>

\* rounds abandoned so far, after leaving the current state for idle
AbandonedAfter == IF app_state = "playing" THEN abandoned \cup {round_id} ELSE abandoned

\* sidebar button: force reset (the run ends above the main area: the state of
\* the answer widgets, not rendered by it, is dropped)
ForceReset ==
    /\ started
    /\ app_state' = "idle"
    /\ abandoned' = AbandonedAfter
    /\ selection' = {}
    /\ notice' = ""
    /\ RerunRequested
    /\ UNCHANGED <<started, all_questions, mistakes_file, history_file, mistakes,
                   history, play_mode, selected_q, current_idx, score, answered,
                   is_correct, round_id, session_records, page,
                   hist_round, streak>>

\* sidebar button: clear the question cache (the next run loads the bank anew)
SyncQuestions(bank) ==
    /\ started
    /\ all_questions' = bank
    /\ app_state' = "idle"
    /\ abandoned' = AbandonedAfter
    /\ selection' = {}
    /\ notice' = ""
    /\ RerunRequested
    /\ UNCHANGED <<started, mistakes_file, history_file, mistakes,
                   history, play_mode, selected_q, current_idx, score, answered,
                   is_correct, round_id, session_records, page,
                   hist_round, streak>>

\* mutation: the running score is not reset
MutBeginAttemptKeepScore(mode, sample) ==
    /\ selected_q' = sample
    /\ play_mode' = mode
    /\ app_state' = "playing"
    /\ current_idx' = 0
    /\ answered' = FALSE
    /\ round_id' = round_id + 1
    /\ session_records' = <<>>
    /\ RerunRequested
    /\ UNCHANGED <<started, all_questions, mistakes_file, history_file, mistakes,
                   history, score, is_correct, page,
                   hist_round, abandoned, streak>>
    /\ selection' = {}
    /\ notice' = ""

\* mutation: the answer-trace accumulator is not cleared
MutBeginAttemptKeepTrace(mode, sample) ==
    /\ selected_q' = sample
    /\ play_mode' = mode
    /\ app_state' = "playing"
    /\ current_idx' = 0
    /\ score' = 0
    /\ answered' = FALSE
    /\ round_id' = round_id + 1
    /\ RerunRequested
    /\ UNCHANGED <<started, all_questions, mistakes_file, history_file, mistakes,
                   history, session_records, is_correct, page,
                   hist_round, abandoned, streak>>
    /\ selection' = {}
    /\ notice' = ""

\* the assignments shared by both start buttons
BeginAttempt(mode, sample) ==
    /\ selected_q' = sample
    /\ play_mode' = mode
    /\ app_state' = "playing"
    /\ current_idx' = 0
    /\ score' = 0
    /\ answered' = FALSE
    /\ round_id' = round_id + 1
    /\ session_records' = <<>>
    /\ RerunRequested
    /\ UNCHANGED <<started, all_questions, mistakes_file, history_file, mistakes,
                   history, is_correct, page,
                   hist_round, abandoned, streak>>
    /\ selection' = {}
    /\ notice' = ""

\* random quiz page: number input num_q, start button
StartRandom(max_rounds) ==
    /\ started
    /\ round_id < max_rounds
    /\ View = "random"
    /\ app_state = "idle" /\ page = "random"
    /\ all_questions # <<>>
    /\ \E num_q \in 1..Len(all_questions) :
         \E sample \in random_sample(all_questions, num_q) :
            BeginAttempt("random", sample)

\* mistake-review page: number input num_m, start button
StartMistake(max_rounds) ==
    /\ started
    /\ round_id < max_rounds
    /\ View = "mistake"
    /\ app_state = "idle" /\ page = "mistake"
    /\ all_questions # <<>>
    /\ DOMAIN mistakes # {}
    /\ mistake_pool(all_questions, mistakes) # <<>>
    /\ \E num_m \in 1..Len(mistake_pool(all_questions, mistakes)) :
         \E sample \in random_sample(mistake_pool(all_questions, mistakes), num_m) :
            BeginAttempt("mistake", sample)

\* ticking / unticking checkbox i of a multi-choice question (enabled on the
\* page of an unanswered question); the run renders the question
ToggleCheckbox(i) ==
    /\ started
    /\ View = "open"
    /\ app_state = "playing"
    /\ is_multi(CurrentQuestion)
    /\ i \in 1..Len(CurrentQuestion.options)
    /\ selection' = IF i \in selection THEN selection \ {i} ELSE selection \cup {i}
    /\ RunCompleted
    /\ ScriptRun("playing", page, all_questions, mistakes, mistakes_file,
                 history, history_file, hist_round)
    /\ UNCHANGED <<started, all_questions, app_state, play_mode, selected_q,
                   current_idx, score, answered, is_correct, round_id,
                   session_records, page, abandoned, streak>>

\* choosing option i of the radio of a single-choice / true-false question
ChooseRadio(i) ==
    /\ started
    /\ View = "open"
    /\ app_state = "playing"
    /\ ~is_multi(CurrentQuestion)
    /\ i \in 1..Len(CurrentQuestion.options)
    /\ selection # {i}
    /\ selection' = {i}
    /\ RunCompleted
    /\ ScriptRun("playing", page, all_questions, mistakes, mistakes_file,
                 history, history_file, hist_round)
    /\ UNCHANGED <<started, all_questions, app_state, play_mode, selected_q,
                   current_idx, score, answered, is_correct, round_id,
                   session_records, page, abandoned, streak>>

\* history variable streak after a graded submit
StreakAfter(m, mode, content, correct) ==
    IF ~correct THEN DictSet(streak, content, 0)
    ELSE IF mode = "mistake" /\ content \in DOMAIN m /\ content \in DOMAIN streak
         THEN DictSet(streak, content, streak[content] + 1)
         ELSE streak

\* the empty-selection guard of the submit handler: st.warning, st.stop
RejectEmpty ==
    /\ notice' = "select_answer"
    /\ RunCompleted
    /\ UNCHANGED <<started, all_questions, mistakes_file, history_file, mistakes,
                   history, app_state, play_mode, selected_q, current_idx, score,
                   answered, is_correct, round_id, session_records, page,
                   selection, hist_round, abandoned, streak>>

\* the submit handler for a non-empty selection
GradeAnswer(q, sel) ==
    LET correct == Graded(q, sel)
        after   == LedgerAfter(mistakes, play_mode, q.content, correct)
    IN  /\ answered' = TRUE
        /\ is_correct' = correct
        /\ score' = IF correct THEN score + 1 ELSE score
        /\ session_records' = Append(session_records, TraceEntry(q, sel, correct))
        /\ streak' = StreakAfter(mistakes, play_mode, q.content, correct)
        /\ mistakes' = after
        /\ mistakes_file' = IF LedgerTouched(mistakes, play_mode, q.content, correct)
                            THEN save_json_dict(after) ELSE mistakes_file
        /\ RerunRequested
        /\ UNCHANGED <<started, all_questions, history_file, history, app_state,
                       play_mode, selected_q, current_idx, round_id, page,
                       selection, hist_round, abandoned>>
        /\ notice' = ""

\* mutation: the empty-selection guard is missing for multi-choice questions
MutSubmitNoMultiGuard ==
    /\ started
    /\ View = "open"
    /\ app_state = "playing" /\ ~answered
    /\ IF selection = {} /\ ~is_multi(CurrentQuestion)
       THEN RejectEmpty
       ELSE GradeAnswer(CurrentQuestion, selection)

\* submit button (rendered only while the current question is unanswered)
SubmitAnswer ==
    /\ started
    /\ View = "open"
    /\ app_state = "playing" /\ ~answered
    /\ IF selection = {}
       THEN RejectEmpty
       ELSE GradeAnswer(CurrentQuestion, selection)

\* mutation: the next-question button is there before the answer is submitted
MutNextQuestionUnanswered ==
    /\ started
    /\ View \in {"open", "next"}
    /\ app_state = "playing"
    /\ current_idx < Len(selected_q) - 1
    /\ current_idx' = current_idx + 1
    /\ answered' = FALSE
    /\ RerunRequested
    /\ UNCHANGED <<started, all_questions, mistakes_file, history_file, mistakes,
                   history, app_state, play_mode, selected_q, score, is_correct,
                   round_id, session_records, page, selection,
                   hist_round, abandoned, streak>>
    /\ notice' = ""

\* mutation: the next-question button is also there on the last question
MutNextQuestionPastEnd ==
    /\ started
    /\ View \in {"next", "last"}
    /\ app_state = "playing" /\ answered
    /\ current_idx' = current_idx + 1
    /\ answered' = FALSE
    /\ RerunRequested
    /\ UNCHANGED <<started, all_questions, mistakes_file, history_file, mistakes,
                   history, app_state, play_mode, selected_q, score, is_correct,
                   round_id, session_records, page, selection,
                   hist_round, abandoned, streak>>
    /\ notice' = ""

\* next-question button (rendered once the current question is answered and
\* is not the last)
NextQuestion ==
    /\ started
    /\ View = "next"
    /\ app_state = "playing" /\ answered
    /\ current_idx < Len(selected_q) - 1
    /\ current_idx' = current_idx + 1
    /\ answered' = FALSE
    /\ RerunRequested
    /\ UNCHANGED <<started, all_questions, mistakes_file, history_file, mistakes,
                   history, app_state, play_mode, selected_q, score, is_correct,
                   round_id, session_records, page, selection,
                   hist_round, abandoned, streak>>
    /\ notice' = ""

\* mutation: the hand-in button goes back to the setup page without a result
MutFinishQuizToIdle ==
    /\ started
    /\ View = "last"
    /\ app_state = "playing" /\ answered
    /\ ~(current_idx < Len(selected_q) - 1)
    /\ app_state' = "idle"
    /\ RerunRequested
    /\ UNCHANGED <<started, all_questions, mistakes_file, history_file, mistakes,
                   history, play_mode, selected_q, current_idx, score, answered,
                   is_correct, round_id, session_records, page, selection,
                   hist_round, abandoned, streak>>
    /\ notice' = ""

\* hand-in button on the last question: the handler sets app_state and calls
\* st.rerun(); the record is built and archived by the run that follows
FinishQuiz ==
    /\ started
    /\ View = "last"
    /\ app_state = "playing" /\ answered
    /\ ~(current_idx < Len(selected_q) - 1)
    /\ app_state' = "finished"
    /\ RerunRequested
    /\ UNCHANGED <<started, all_questions, mistakes_file, history_file, mistakes,
                   history, play_mode, selected_q, current_idx, score, answered,
                   is_correct, round_id, session_records, page, selection,
                   hist_round, abandoned, streak>>
    /\ notice' = ""

\* return-home button of the finished branch: the run that serves the click
\* first executes the finished branch above the button, then the handler
\* sets app_state and calls st.rerun()
Acknowledge(max_history) ==
    /\ started
    /\ View = "finished"
    /\ app_state = "finished" /\ page # "home"
    /\ Len(history) < max_history
    /\ ArchiveAttempt(history, hist_round)
    /\ app_state' = "idle"
    /\ RerunRequested
    /\ UNCHANGED <<started, all_questions, mistakes_file, mistakes, play_mode,
                   selected_q, current_idx, score, answered, is_correct,
                   round_id, session_records, page, abandoned, streak>>
    /\ selection' = {}
    /\ notice' = ""

Pages == {"home", "random", "mistake"}

Next ==
    \/ Startup
    \/ \E p \in Pages : SelectPage(p, MaxHistory)
    \/ Rerun(MaxHistory)
    \/ ForceReset
    \/ \E bank \in Banks : SyncQuestions(bank)
    \/ StartRandom(MaxRounds)
    \/ StartMistake(MaxRounds)
    \/ \E i \in 1..2 : ToggleCheckbox(i)
    \/ \E i \in 1..2 : ChooseRadio(i)
    \/ SubmitAnswer
    \/ NextQuestion
    \/ FinishQuiz
    \/ Acknowledge(MaxHistory)

Spec == Init /\ [][Next]_vars

\* One-question banks (every attempt has one question, so the next-question
\* button is never rendered); sync may find another bank on disk, or no
\* spreadsheet at all.
NextLedger ==
    \/ Startup
    \/ \E p \in Pages : SelectPage(p, LedgerMaxHistory)
    \/ Rerun(LedgerMaxHistory)
    \/ ForceReset
    \/ \E bank \in LedgerBanks : SyncQuestions(bank)
    \/ StartRandom(LedgerMaxRounds)
    \/ StartMistake(LedgerMaxRounds)
    \/ \E i \in 1..2 : ToggleCheckbox(i)
    \/ \E i \in 1..2 : ChooseRadio(i)
    \/ SubmitAnswer
    \/ FinishQuiz
    \/ Acknowledge(LedgerMaxHistory)

SpecLedger == InitLedger /\ [][NextLedger]_vars

NextGrade ==
    \/ Startup
    \/ \E p \in Pages : SelectPage(p, GradeMaxHistory)
    \/ Rerun(GradeMaxHistory)
    \/ ForceReset
    \/ \E bank \in GradeBanks : SyncQuestions(bank)
    \/ StartRandom(GradeMaxRounds)
    \/ StartMistake(GradeMaxRounds)
    \/ \E i \in 1..3 : ToggleCheckbox(i)
    \/ \E i \in 1..2 : ChooseRadio(i)
    \/ SubmitAnswer
    \/ NextQuestion
    \/ FinishQuiz
    \/ Acknowledge(GradeMaxHistory)

SpecGrade == InitGrade /\ [][NextGrade]_vars

NextRecord ==
    \/ Startup
    \/ \E p \in Pages : SelectPage(p, RecordMaxHistory)
    \/ Rerun(RecordMaxHistory)
    \/ ForceReset
    \/ \E bank \in RecordBanks : SyncQuestions(bank)
    \/ StartRandom(RecordMaxRounds)
    \/ StartMistake(RecordMaxRounds)
    \/ \E i \in 1..2 : ToggleCheckbox(i)
    \/ \E i \in 1..2 : ChooseRadio(i)
    \/ SubmitAnswer
    \/ NextQuestion
    \/ FinishQuiz
    \/ Acknowledge(RecordMaxHistory)

SpecRecord == InitRecord /\ [][NextRecord]_vars

\* The user who never presses force reset or sync.
NextFair ==
    \/ Startup
    \/ \E p \in Pages : SelectPage(p, FairMaxHistory)
    \/ Rerun(FairMaxHistory)
    \/ StartRandom(FairMaxRounds)
    \/ StartMistake(FairMaxRounds)
    \/ \E i \in 1..2 : ToggleCheckbox(i)
    \/ \E i \in 1..2 : ChooseRadio(i)
    \/ SubmitAnswer
    \/ NextQuestion
    \/ FinishQuiz
    \/ Acknowledge(FairMaxHistory)

\* with nothing selected, the user picks an option
SelectAnswer ==
    /\ selection = {}
    /\ \E i \in 1..2 : ToggleCheckbox(i) \/ ChooseRadio(i)

\* the user submits a non-empty answer
SubmitNonEmpty == selection # {} /\ SubmitAnswer

\* the script runner performs the rerun a handler asked for
RequestedRerun == rerun_due /\ Rerun(FairMaxHistory)

\* The script runner performs a requested rerun unless a browser event is
\* served in its place.  The user presses submit, next and hand-in whenever
\* the button stays on screen, and submits a non-empty answer whenever one
\* stays selected (weak fairness on the three buttons; nothing is assumed
\* about selecting).
Fairness ==
    /\ WF_vars(RequestedRerun)
    /\ WF_vars(SubmitAnswer)
    /\ WF_vars(SubmitNonEmpty)
    /\ WF_vars(NextQuestion)
    /\ WF_vars(FinishQuiz)

SpecFair == InitFair /\ [][NextFair]_vars /\ Fairness

----------------------------------------------------------------------------
(* Vocabulary of the properties *)

LastOf(s) == s[Len(s)]

\* a step in which the submit handler graded an answer
GradedStep == Len(session_records') = Len(session_records) + 1

\* a step that starts an attempt
StartStep == app_state # "playing" /\ app_state' = "playing"

\* the pool a start in the given mode samples from
PoolOf(mode) ==
    IF mode = "random" THEN all_questions ELSE mistake_pool(all_questions, mistakes)

\* the ledgers d and e agree on every key other than k
SameExcept(d, e, k) ==
    /\ (DOMAIN d) \ {k} = (DOMAIN e) \ {k}
    /\ \A c \in (DOMAIN d) \ {k} : d[c] = e[c]

\* a step in which the finished branch appends a record to history
ArchiveStep == Len(history') = Len(history) + 1

\* the finished screen of the current attempt is on display
FinishedShown == app_state = "finished" /\ page # "home" /\ ~rerun_due

StrictlyAscending(s) == \A i, j \in DOMAIN s : i < j => s[i] < s[j]

----------------------------------------------------------------------------
(* C1 *)

\* C1: every attempt that reaches the finished state is archived exactly once:
\* it has a record in history once its finished screen is on display, and no
\* two records of history belong to the same attempt (re-rendering the
\* finished screen or pressing the return-home button adds none).
C1_ArchivedExactlyOnce ==
    /\ FinishedShown => \E i \in DOMAIN hist_round : hist_round[i] = round_id
    /\ \A i, j \in DOMAIN hist_round :
          (i # j /\ hist_round[i] > 0) => hist_round[i] # hist_round[j]

----------------------------------------------------------------------------
(* C2 *)

\* C2: after every submit graded wrong, whatever the mode and the previous
\* ledger entry of the question, the ledger maps the question's content to 2.
C2_WrongSetsTwo ==
    [][ (GradedStep /\ ~LastOf(session_records').is_correct)
          => /\ LastOf(session_records').content \in DOMAIN mistakes'
             /\ mistakes'[LastOf(session_records').content] = 2 ]_vars

\* a mistake-review attempt of the first round has just answered Q1 wrong; the
\* ledger came from a file holding Q1 -> 1 alone, and now holds Q1 -> 2
C2_Witness ==
    /\ app_state = "playing" /\ answered /\ ~is_correct
    /\ play_mode = "mistake" /\ round_id = 1
    /\ Len(session_records) = 1
    /\ LastOf(session_records).content = "Q1"
    /\ DOMAIN mistakes = {"Q1"} /\ mistakes["Q1"] = 2

----------------------------------------------------------------------------
(* C3 *)

\* C3: a submit graded correct in mistake-review mode on a question whose
\* content is a ledger key takes exactly 1 off that entry: the key stays with
\* the reduced value if that is at least 1 and is removed if it is 0; no
\* other key changes.
C3_CorrectDecrements ==
    [][ (/\ GradedStep
         /\ LastOf(session_records').is_correct
         /\ play_mode = "mistake"
         /\ LastOf(session_records').content \in DOMAIN mistakes)
          => LET c == LastOf(session_records').content
             IN  /\ mistakes[c] - 1 >= 1 =>
                       (c \in DOMAIN mistakes' /\ mistakes'[c] = mistakes[c] - 1)
                 /\ mistakes[c] - 1 <= 0 => c \notin DOMAIN mistakes'
                 /\ SameExcept(mistakes, mistakes', c) ]_vars

\* a mistake-review attempt over Q1 and Q2, both answered correctly: Q1 (owing
\* one) has been removed, Q2 (owing two) is kept owing one
C3_Witness ==
    /\ app_state = "playing" /\ play_mode = "mistake"
    /\ Len(session_records) = 2
    /\ \A i \in 1..2 : session_records[i].is_correct
    /\ DOMAIN mistakes = {"Q2"} /\ mistakes["Q2"] = 1

----------------------------------------------------------------------------
(* C4 *)

\* C4: a submit graded correct leaves the ledger, in memory and on disk, as it
\* was whenever the mode is random or the content is not a ledger key.
C4_CorrectElsewhereKeepsLedger ==
    [][ (/\ GradedStep
         /\ LastOf(session_records').is_correct
         /\ (play_mode = "random"
               \/ LastOf(session_records').content \notin DOMAIN mistakes))
          => (mistakes' = mistakes /\ mistakes_file' = mistakes_file) ]_vars

\* a random-mode attempt has just answered correctly a question that is in the
\* ledger, and the entry is still there
C4_Witness ==
    /\ app_state = "playing" /\ play_mode = "random"
    /\ answered /\ is_correct
    /\ LastOf(session_records).content \in DOMAIN mistakes
    /\ mistakes[LastOf(session_records).content] = 1
    /\ mistakes_file = DictFile(mistakes)

----------------------------------------------------------------------------
(* C5 *)

\* the stale-ledger clear: the mistake-review page rendered in idle while no
\* ledger key is the content of a loaded question
StaleClearStep ==
    /\ app_state' = "idle" /\ page' = "mistake"
    /\ all_questions' # <<>>
    /\ StaleLedger(all_questions', mistakes)
    /\ mistakes' = EmptyDict

\* C5 as stated: a question that was answered wrong leaves the ledger only in
\* a step after which it has been answered correctly twice in mistake-review
\* mode since its last wrong answer.
C5_LeavesOnlyAfterTwoCorrect ==
    [][ \A c \in DOMAIN streak :
          (c \in DOMAIN mistakes /\ c \notin DOMAIN mistakes')
            => (c \in DOMAIN streak' /\ streak'[c] >= 2) ]_vars

\* C5 amended: a question that was answered wrong leaves the ledger only in a
\* step after which it has been answered correctly twice in mistake-review
\* mode since its last wrong answer, or in a stale-ledger clear; and every
\* wrong answer to it puts its counter back to 2 and its count of correct
\* answers back to 0.
C5_LeavesAfterTwoCorrectOrStaleClear ==
    [][ /\ \A c \in DOMAIN streak :
             (c \in DOMAIN mistakes /\ c \notin DOMAIN mistakes')
               => \/ (c \in DOMAIN streak' /\ streak'[c] >= 2)
                  \/ StaleClearStep
        /\ (GradedStep /\ ~LastOf(session_records').is_correct)
             => LET c == LastOf(session_records').content
                IN  /\ c \in DOMAIN mistakes' /\ mistakes'[c] = 2
                    /\ c \in DOMAIN streak' /\ streak'[c] = 0 ]_vars

\* Q1 was answered wrong, then correctly in two mistake-review attempts, the
\* second of which has just removed it from the ledger
C5_Witness ==
    /\ app_state = "playing" /\ play_mode = "mistake"
    /\ answered /\ is_correct
    /\ LastOf(session_records).content = "Q1"
    /\ "Q1" \in DOMAIN streak /\ streak["Q1"] = 2
    /\ "Q1" \notin DOMAIN mistakes

----------------------------------------------------------------------------
(* C6 *)

\* the labels of the options ticked / chosen
SelectedLabels(q, sel) == { q.options[i].label : i \in sel }

\* C6: every graded submit gives the verdict "correct" exactly when the set
\* of labels selected at the submit equals the set of labels of the
\* question's answer, and records as user answer exactly the selected labels
\* in ascending order -- whatever the order in which the options were
\* selected; verdict and record stay as long as the question is the current
\* one.
C6_GradingBySet ==
    /\ [][GradedStep =>
            LET q == CurrentQuestion
                r == LastOf(session_records')
            IN  /\ answered' /\ current_idx' = current_idx
                /\ r.is_correct = (SelectedLabels(q, selection) = Range(q.answer))
                /\ is_correct' = r.is_correct
                /\ Range(r.user_ans) = SelectedLabels(q, selection)
                /\ StrictlyAscending(r.user_ans)]_vars
    /\ []((app_state = "playing" /\ answered) =>
            LET q == CurrentQuestion
                r == LastOf(session_records)
            IN  /\ is_correct = r.is_correct
                /\ r.is_correct = (Range(r.user_ans) = Range(q.answer))
                /\ StrictlyAscending(r.user_ans))

\* the multi-choice question whose answer is stored as "CA" has been answered
\* with exactly A and C ticked and is graded correct
C6_Witness ==
    /\ app_state = "playing" /\ answered
    /\ is_multi(CurrentQuestion)
    /\ CurrentQuestion.answer = <<3, 1>>
    /\ selection = {1, 3}
    /\ is_correct
    /\ LastOf(session_records).user_ans = <<1, 3>>

----------------------------------------------------------------------------
(* C7 *)

\* C7: every start holds a sample of pairwise distinct questions of the pool
\* of its mode, of a size from 1 to the size of the pool; and from the
\* mistake-review page with an empty ledger no step leaves idle.
C7_SampleFromPool ==
    [][ /\ StartStep
             => /\ app_state = "idle"
                /\ \E count \in 1..Len(PoolOf(play_mode')) :
                      Len(selected_q') = count
                /\ \A i, j \in DOMAIN selected_q' :
                      i # j => selected_q'[i] # selected_q'[j]
                /\ \A i \in DOMAIN selected_q' :
                      selected_q'[i] \in Range(PoolOf(play_mode'))
        /\ (started /\ app_state = "idle" /\ page = "mistake"
               /\ DOMAIN mistakes = {})
             => app_state' = "idle" ]_vars

\* a mistake-review attempt over both ledger questions has just started
C7_Witness ==
    /\ app_state = "playing" /\ play_mode = "mistake"
    /\ current_idx = 0 /\ ~answered /\ session_records = <<>>
    /\ Len(selected_q) = 2
    /\ selected_q[1] # selected_q[2]
    /\ \A i \in 1..2 : selected_q[i].content \in DOMAIN mistakes

----------------------------------------------------------------------------
(* C8 *)

\* C8: every start leaves idle with score 0, position 0, the answered flag
\* false, an empty answer trace and the round id increased by exactly 1; no
\* other step changes the round id.
C8_StartResets ==
    [][ /\ StartStep
             => /\ app_state = "idle"
                /\ score' = 0 /\ current_idx' = 0 /\ ~answered'
                /\ session_records' = <<>>
                /\ round_id' = round_id + 1
        /\ ~StartStep => round_id' = round_id ]_vars

\* the second attempt has just started, after a finished first attempt that
\* left score 2, position 1, the answered flag set and two trace entries
C8_Witness ==
    /\ app_state = "playing" /\ round_id = 2
    /\ score = 0 /\ current_idx = 0 /\ ~answered /\ session_records = <<>>
    /\ Len(history) >= 1
    /\ history[1].score = 2 /\ Len(history[1].details) = 2
    /\ abandoned = {}

----------------------------------------------------------------------------
(* C9 *)

\* C9: while the current question is unanswered and nothing is selected, a
\* step that stays in the playing state with nothing selected (the rejected
\* submit) changes neither the answered flag, the position, the score, the
\* answer trace, the sample, the ledger or the history, in memory or on disk.
C9_EmptySubmitRejected ==
    [][ (/\ started /\ app_state = "playing" /\ ~answered /\ selection = {}
         /\ app_state' = "playing" /\ selection' = {})
          => UNCHANGED <<answered, current_idx, score, session_records,
                         selected_q, play_mode, round_id, is_correct,
                         mistakes, mistakes_file, history, history_file>> ]_vars

\* the second question of an attempt, a multi-choice one, was submitted with
\* no box ticked: the warning is shown and the question is still unanswered
C9_Witness ==
    /\ app_state = "playing" /\ ~answered /\ selection = {}
    /\ notice = "select_answer"
    /\ current_idx = 1 /\ is_multi(CurrentQuestion)
    /\ Len(session_records) = 1

----------------------------------------------------------------------------
(* C10 *)

\* C10: the force-reset button is there in every state (idle, playing with the
\* question answered or not, finished before and after the archiving run),
\* always leads to idle and never changes history; a step that abandons an
\* attempt leaves history as it is; records are appended by the finished
\* branch only, for the attempt then finished; no record of history belongs
\* to an abandoned attempt, and every record holds the answers of one attempt
\* only (as many trace entries as questions, numbered 1, 2, ...).
C10_AbandonedNeverArchived ==
    /\ [](started => /\ ENABLED ForceReset
                      /\ ~ENABLED (ForceReset /\ app_state' # "idle")
                      /\ ~ENABLED (ForceReset /\ history' # history)
                      /\ ~ENABLED (ForceReset /\ history_file' # history_file))
    /\ [](\A i \in DOMAIN history :
            /\ hist_round[i] \notin abandoned
            /\ Len(history[i].details) = history[i].count
            /\ \A k \in DOMAIN history[i].details : history[i].details[k].idx = k)
    /\ [][ abandoned' # abandoned
              => (app_state' = "idle" /\ history' = history
                    /\ history_file' = history_file) ]_vars
    /\ [][ (started /\ history' # history)
              => /\ app_state = "finished"
                 /\ round_id \notin abandoned
                 /\ history' = Append(history, LastOf(history'))
                 /\ LastOf(history').details = session_records
                 /\ LastOf(hist_round') = round_id ]_vars

\* the first attempt was abandoned by force reset, the second one was handed
\* in and reset before the archiving run: nothing was archived
C10_Witness ==
    /\ abandoned = {1}
    /\ round_id = 2 /\ app_state = "idle"
    /\ Len(session_records) = Len(selected_q)
    /\ answered /\ current_idx = Len(selected_q) - 1
    /\ Len(selected_q) = 2
    /\ history = <<>> /\ history_file = AbsentFile

----------------------------------------------------------------------------
(* C11 *)

\* the number of trace entries of record r flagged correct
CorrectCount(r) == Cardinality({ k \in 1..Len(r.details) : r.details[k].is_correct })

\* a (in tenths of a percent) is a nearest tenth to sc / n * 100
NearestTenth(a, sc, n) ==
    LET d == a * n - 1000 * sc
    IN  2 * d <= n /\ -2 * d <= n

\* C11: the record the finished branch appends for an attempt of n questions
\* is appended behind the records already there and has the mode of the
\* attempt, count = n, score = the running score = the number of trace entries
\* flagged correct, the attempt's trace of n entries with idx 1..n, and
\* accuracy = score / n * 100 rounded to one decimal (n = 5 with 3 correct
\* gives 60.0); every record of the history has that shape.
C11_RecordSummarises ==
    /\ [][(started /\ ArchiveStep) =>
            LET r == LastOf(history')
                n == Len(selected_q)
            IN  /\ app_state = "finished" /\ n > 0
                /\ history' = Append(history, r)
                /\ history_file' = ListFile(history')
                /\ r.mode = play_mode
                /\ r.count = n
                /\ r.details = session_records
                /\ Len(r.details) = n
                /\ \A k \in 1..n : r.details[k].idx = k
                /\ r.score = score
                /\ r.score = CorrectCount(r)
                /\ NearestTenth(r.accuracy, r.score, n)]_vars
    /\ [](\A i \in 1..Len(history) :
            LET r == history[i]
            IN  /\ r.count > 0
                /\ Len(r.details) = r.count
                /\ \A k \in 1..r.count : r.details[k].idx = k
                /\ r.score = CorrectCount(r)
                /\ NearestTenth(r.accuracy, r.score, r.count))
    /\ Accuracy(3, 5) = 600

\* an attempt of three questions with two graded correct, archived behind the
\* record of an earlier session: 66.7
C11_Witness ==
    /\ FinishedShown
    /\ Len(history) = 2
    /\ history[1] = PriorRecord
    /\ history[2].count = 3
    /\ history[2].score = 2
    /\ history[2].accuracy = 667

----------------------------------------------------------------------------
(* C12 *)

\* C12: pressing the return-home button of the finished screen moves to idle
\* and leaves the history (list and file) and the ledger (dict and file)
\* exactly as they were before the press.
C12_AcknowledgeKeepsData ==
    (started /\ app_state = "finished") =>
        ~ENABLED (/\ Acknowledge(MaxHistory)
                  /\ \/ app_state' # "idle"
                     \/ history' # history
                     \/ history_file' # history_file
                     \/ mistakes' # mistakes
                     \/ mistakes_file' # mistakes_file)

----------------------------------------------------------------------------
(* C13 *)

\* C13: every step that changes the in-memory ledger (wrong answer, decrement
\* or removal, stale clear, legacy migration) leaves the mistake file holding
\* exactly the new ledger; hence, once the session is up, the file is either
\* absent with an empty ledger or holds the in-memory ledger.
C13_LedgerPersisted ==
    /\ [][mistakes' # mistakes => mistakes_file' = DictFile(mistakes')]_vars
    /\ [](started =>
            IF mistakes_file.shape = "absent"
            THEN mistakes = EmptyDict
            ELSE mistakes_file = DictFile(mistakes))

\* a ledger migrated from the legacy list, then decremented by a correct
\* mistake-review answer, and saved
C13_Witness ==
    /\ app_state = "playing" /\ play_mode = "mistake"
    /\ answered /\ is_correct
    /\ streak = EmptyDict
    /\ mistakes = [c \in {"Q2"} |-> 1]
    /\ mistakes_file = DictFile(mistakes)

----------------------------------------------------------------------------
(* C14 *)

\* a script run within idle that renders the mistake-review page while the
\* ledger is not empty and none of its keys is the content of a loaded question
OpenStaleReview ==
    /\ started
    /\ app_state = "idle" /\ app_state' = "idle"
    /\ page' = "mistake" /\ ~rerun_due'
    /\ DOMAIN mistakes # {}
    /\ \A k \in 1..Len(all_questions') :
          all_questions'[k].content \notin DOMAIN mistakes

\* what the stale clear does: ledger emptied in memory and on disk, no session
\* created, history untouched
StaleCleared ==
    /\ mistakes' = EmptyDict
    /\ mistakes_file' = DictFile(EmptyDict)
    /\ round_id' = round_id /\ selected_q' = selected_q
    /\ history' = history /\ history_file' = history_file

\* C14 as stated: whenever the mistake-review page is opened in idle with a
\* non-empty ledger none of whose keys is the content of a loaded question,
\* the ledger is emptied in memory and on disk in that step, no session is
\* created and history is unchanged.
C14_StaleOpenClears == [][OpenStaleReview => StaleCleared]_vars

\* C14 amended: the same, provided at least one question is loaded; with an
\* empty bank the page reports the empty bank and the ledger stays as it is,
\* in memory and on disk.
C14_StaleOpenClearsLoadedBank ==
    [][OpenStaleReview =>
         IF all_questions' # <<>>
         THEN StaleCleared
         ELSE /\ mistakes' = mistakes /\ mistakes_file' = mistakes_file
              /\ round_id' = round_id /\ history' = history]_vars

\* the legacy ledger (Q2) found stale against the bank holding Q1 only: cleared
\* and saved before any attempt was started
C14_Witness ==
    /\ app_state = "idle" /\ page = "mistake"
    /\ notice = "stale_cleared"
    /\ all_questions = <<Row(1)>>
    /\ mistakes = EmptyDict
    /\ mistakes_file = DictFile(EmptyDict)
    /\ round_id = 0 /\ history = <<>>

----------------------------------------------------------------------------
(* C15 *)

\* C15: the first script run loads a legacy list file as the ledger mapping
\* each listed content to 2 and rewrites the file in the mapping shape; a file
\* already in the mapping shape is loaded as it is and not rewritten; an
\* absent file gives the empty ledger.  Nothing else happens before that run.
C15_LegacyMigrated ==
    /\ [][~started => started']_vars
    /\ [][(~started /\ started') =>
            IF mistakes_file.shape = "list"
            THEN /\ DOMAIN mistakes' = Range(mistakes_file.list)
                 /\ \A c \in DOMAIN mistakes' : mistakes'[c] = 2
                 /\ mistakes_file' = DictFile(mistakes')
            ELSE /\ mistakes_file' = mistakes_file
                 /\ mistakes' = IF mistakes_file.shape = "dict"
                                THEN mistakes_file.dict ELSE EmptyDict]_vars

\* ["Q1", "Q2"] migrated: Q1 -> 2, Q2 -> 2, file in the mapping shape
C15_Witness ==
    /\ started /\ round_id = 0
    /\ "Q1" \in DOMAIN mistakes /\ "Q2" \in DOMAIN mistakes
    /\ mistakes["Q1"] = 2 /\ mistakes["Q2"] = 2
    /\ mistakes_file.shape = "dict"
    /\ mistakes_file.dict = mistakes

----------------------------------------------------------------------------
(* C16 *)

\* every value of ledger d is 1 or 2
ValuesOneOrTwo(d) == \A c \in DOMAIN d : d[c] \in {1, 2}

\* C16: from an initial ledger with values 1 or 2 (absent, migrated or
\* partially worked off), every ledger value is 1 or 2 in every reachable
\* state, in memory and in the mistake file; a key enters the ledger of a
\* running session only with value 2.
C16_LedgerValues ==
    /\ [](ValuesOneOrTwo(mistakes) /\ ValuesOneOrTwo(mistakes_file.dict))
    /\ [][started => \A c \in (DOMAIN mistakes') \ (DOMAIN mistakes) :
                        mistakes'[c] = 2]_vars

\* a correct mistake-review answer took the counter of the current question to
\* 0: the key is gone from the ledger and from the file
C16_Witness ==
    /\ app_state = "playing" /\ play_mode = "mistake"
    /\ answered /\ is_correct
    /\ CurrentQuestion.content \notin DOMAIN mistakes
    /\ mistakes_file.shape = "dict"
    /\ CurrentQuestion.content \notin DOMAIN mistakes_file.dict

----------------------------------------------------------------------------
(* C17 *)

\* the position is the last index of the sample
AtLast == current_idx = Len(selected_q) - 1

\* the trace holds one entry per sampled question, in sampling order
GradedInOrder ==
    /\ Len(session_records) = Len(selected_q)
    /\ \A k \in 1..Len(selected_q) :
          /\ session_records[k].idx = k
          /\ session_records[k].content = selected_q[k].content

\* C17: the next-question button is enabled only in playing states with the
\* current question answered and the position not last, and it sets answered
\* to false and adds exactly 1 to the position; the hand-in button is enabled
\* only in playing states with the current question answered and the
\* position last, and pressing it only sets app_state to finished; the
\* submit button is enabled only in playing states with the current question
\* unanswered, and a graded submit answers the question at the current
\* position; once the page of the state is on display (no rerun pending) each
\* button is enabled in every such state.  Hence the finished state is entered
\* only from the answered last question, with every sampled question graded
\* exactly once, in sampling order.
C17_ButtonGuards ==
    /\ [](started =>
            /\ ENABLED NextQuestion =>
                  (app_state = "playing" /\ answered /\ ~AtLast)
            /\ ENABLED FinishQuiz =>
                  (app_state = "playing" /\ answered /\ AtLast)
            /\ ENABLED SubmitAnswer =>
                  (app_state = "playing" /\ ~answered))
    /\ []((started /\ ~rerun_due) =>
            /\ (app_state = "playing" /\ answered /\ ~AtLast)
                  => ENABLED NextQuestion
            /\ (app_state = "playing" /\ answered /\ AtLast)
                  => ENABLED FinishQuiz
            /\ (app_state = "playing" /\ ~answered)
                  => ENABLED SubmitAnswer)
    /\ [][(app_state = "playing" /\ current_idx' # current_idx) =>
            /\ answered /\ ~AtLast
            /\ app_state' = "playing" /\ selected_q' = selected_q
            /\ ~answered' /\ current_idx' = current_idx + 1]_vars
    /\ [][GradedStep =>
            /\ app_state = "playing" /\ ~answered /\ answered'
            /\ current_idx' = current_idx
            /\ LastOf(session_records').idx = current_idx + 1]_vars
    /\ [][(app_state # "finished" /\ app_state' = "finished") =>
            /\ app_state = "playing" /\ answered /\ AtLast
            /\ selected_q' = selected_q /\ session_records' = session_records]_vars
    /\ [](app_state = "finished" => GradedInOrder)

\* a two-question attempt just handed in: both questions graded, position
\* last, the archiving run still to come
C17_Witness ==
    /\ app_state = "finished" /\ rerun_due
    /\ Len(selected_q) = 2
    /\ current_idx = 1 /\ answered
    /\ GradedInOrder

----------------------------------------------------------------------------
(* C18 *)

\* C18: in every reachable state with app_state playing or finished (before
\* and after the archiving run), whatever the interleaving of start, submit,
\* next, hand-in, return-home, force reset and sync, the sample is not empty
\* and 0 <= current_idx < Len(selected_q): the current question exists and
\* the accuracy computed by the finished branch never divides by zero.
C18_PositionInRange ==
    (started /\ app_state \in {"playing", "finished"}) =>
        /\ Len(selected_q) > 0
        /\ 0 <= current_idx
        /\ current_idx < Len(selected_q)

\* the second attempt, after the first was abandoned, handed in on the last
\* of its two questions and not yet archived
C18_Witness ==
    /\ app_state = "finished" /\ rerun_due
    /\ round_id = 2 /\ 1 \in abandoned
    /\ Len(selected_q) = 2 /\ current_idx = 1

----------------------------------------------------------------------------
(* C19 *)

\* C19: in every reachable playing state the trace of the attempt has
\* current_idx + 1 entries if the current question is answered and
\* current_idx entries otherwise, the entries carry idx 1, 2, ... in order,
\* the k-th entry carries the content of the k-th sampled question, and the
\* running score is the number of entries flagged correct.
C19_TraceTracksPosition ==
    (started /\ app_state = "playing") =>
        /\ Len(session_records) = current_idx + (IF answered THEN 1 ELSE 0)
        /\ \A k \in 1..Len(session_records) :
              /\ session_records[k].idx = k
              /\ session_records[k].content = selected_q[k].content
        /\ score = Cardinality({ k \in 1..Len(session_records) :
                                   session_records[k].is_correct })

\* second question of an attempt answered, one of the two answers correct
C19_Witness ==
    /\ app_state = "playing"
    /\ current_idx = 1 /\ answered
    /\ Len(session_records) = 2
    /\ score = 1

----------------------------------------------------------------------------
(* C20 *)

\* a step within one attempt
AttemptStep ==
    /\ app_state = "playing" /\ app_state' = "playing"
    /\ round_id' = round_id

\* the counting part: within an attempt the position and the trace stay or
\* grow by 1; finished is entered with n trace entries (graded submits) and
\* position n - 1 (advances) for an attempt of n questions, and a finished
\* attempt is not played again; without force reset and sync an attempt is
\* left by the hand-in only
AttemptCounts ==
    /\ [][app_state = "playing" =>
            (round_id' = round_id /\ app_state' \in {"playing", "finished"})]_vars
    /\ [][AttemptStep =>
            /\ current_idx' \in {current_idx, current_idx + 1}
            /\ Len(session_records') \in
                  {Len(session_records), Len(session_records) + 1}
            /\ selected_q' = selected_q]_vars
    /\ [](app_state = "finished" =>
            /\ Len(session_records) = Len(selected_q)
            /\ current_idx = Len(selected_q) - 1)
    /\ [][app_state = "finished" =>
            (round_id' = round_id /\ app_state' # "playing")]_vars

\* every started attempt reaches the finished state (its own: a playing
\* state is left only for the finished state of the same round)
AttemptFinishes == (app_state = "playing") ~> (app_state = "finished")

\* C20 as stated: the position never decreases while playing, and under weak
\* fairness on submit, next and hand-in, without force reset or sync, an
\* attempt of n questions reaches the finished state, after n graded submits
\* and n - 1 advances.
C20_AttemptTerminates == AttemptCounts /\ AttemptFinishes

\* C20 amended: the same, for a user who moreover picks an option whenever
\* none is selected (weak fairness) and does submit a non-empty selection
\* if one is on screen again and again (strong fairness: a rejected empty
\* submit changes nothing, and a ticked box can be unticked again).
C20_AttemptTerminatesIfAnswered ==
    /\ AttemptCounts
    /\ (WF_vars(SelectAnswer) /\ SF_vars(SubmitNonEmpty)) => AttemptFinishes

\* a two-question attempt that reached finished: 2 submits, 1 advance
C20_Witness ==
    /\ app_state = "finished"
    /\ abandoned = {}
    /\ Len(selected_q) = 2
    /\ Len(session_records) = 2
    /\ current_idx = 1

============================================================================
